---- MODULE Spec2Model ----
(***************************************************************************)
(* Model of the WiMa tool chain: the field normalizer of make_map.py (both *)
(* the Python copy and the copy embedded in the rendered page), the two    *)
(* ingest converters (scripts/csv_to_geojson.py, scripts/parse_netxml.py)  *)
(* and the filter engine of the rendered page.                             *)
(*                                                                         *)
(* Text is a sequence of one-character strings, so that trimming, case     *)
(* folding, substring search, regular-expression matching and number       *)
(* parsing are computed character by character.  A float is a record       *)
(* [k, v]: k = "fin" with v the value in hundredths, or k = "nan",         *)
(* "pinf", "ninf"; k = "none" is Python's None / JavaScript's null.        *)
(***************************************************************************)
EXTENDS Integers, Sequences, FiniteSets, TLC

\* ------------------------------------------------------------------------
\* Characters and text
\* ------------------------------------------------------------------------

UpperChars ==
  <<"A","B","C","D","E","F","G","H","I","J","K","L","M",
    "N","O","P","Q","R","S","T","U","V","W","X","Y","Z">>

LowerChars ==
  <<"a","b","c","d","e","f","g","h","i","j","k","l","m",
    "n","o","p","q","r","s","t","u","v","w","x","y","z">>

DigitChars ==
  <<"0","1","2","3","4","5","6","7","8","9">>

\* U+2212, the Unicode minus sign, as one character
UMinus == "U2212"

Range(f) == { f[i] : i \in DOMAIN f }

IsSpace(c) == c = " "

IsDigit(c) == c \in Range(DigitChars)

\* \w of the regular expressions: letters, digits, underscore
IsWordChar(c) == c \in Range(UpperChars) \cup Range(LowerChars) \cup Range(DigitChars) \cup {"_"}

DigitVal(c) == (CHOOSE i \in DOMAIN DigitChars : DigitChars[i] = c) - 1

LowerChar(c) ==
  IF c \in Range(UpperChars)
  THEN LowerChars[CHOOSE i \in DOMAIN UpperChars : UpperChars[i] = c]
  ELSE c

\* str.lower() / String.prototype.toLowerCase()
Lower(s) == [i \in 1..Len(s) |-> LowerChar(s[i])]

RECURSIVE LStrip(_)
LStrip(s) == IF s # <<>> /\ IsSpace(Head(s)) THEN LStrip(Tail(s)) ELSE s

RECURSIVE RStrip(_)
RStrip(s) == IF s # <<>> /\ IsSpace(s[Len(s)]) THEN RStrip(SubSeq(s, 1, Len(s) - 1)) ELSE s

\* str.strip() / String.prototype.trim()
Strip(s) == RStrip(LStrip(s))

\* sub occurs in s starting at position i
MatchAt(sub, s, i) ==
  /\ i >= 1
  /\ i + Len(sub) - 1 <= Len(s)
  /\ SubSeq(s, i, i + Len(sub) - 1) = sub

\* Python's "sub in s" / String.prototype.includes
Contains(sub, s) == \E i \in 1..(Len(s) + 1) : MatchAt(sub, s, i)

EndsWith(suf, s) == Len(suf) <= Len(s) /\ SubSeq(s, Len(s) - Len(suf) + 1, Len(s)) = suf

\* str.replace(old, new) of Python: every occurrence of the character
ReplaceAllChar(s, old, new) == [i \in 1..Len(s) |-> IF s[i] = old THEN new ELSE s[i]]

\* String.prototype.replace with a string pattern: the first occurrence only
ReplaceFirstChar(s, old, new) ==
  IF \E i \in 1..Len(s) : s[i] = old
  THEN LET p == CHOOSE i \in 1..Len(s) : s[i] = old /\ \A j \in 1..(i - 1) : s[j] # old
       IN [i \in 1..Len(s) |-> IF i = p THEN new ELSE s[i]]
  ELSE s

\* str.replace("dbm", "") of csv_to_geojson.to_float: every occurrence removed
RECURSIVE RemoveAll(_, _)
RemoveAll(sub, s) ==
  IF s = <<>> THEN <<>>
  ELSE IF MatchAt(sub, s, 1) THEN RemoveAll(sub, SubSeq(s, Len(sub) + 1, Len(s)))
  ELSE <<Head(s)>> \o RemoveAll(sub, Tail(s))

\* \b at position i of s: between s[i-1] and s[i]
IsWordAt(s, i) == i >= 1 /\ i <= Len(s) /\ IsWordChar(s[i])

WordBoundary(s, i) == IsWordAt(s, i - 1) # IsWordAt(s, i)

\* " ".join(parts) / Array.prototype.join(' ')
RECURSIVE JoinSp(_)
JoinSp(parts) ==
  IF parts = <<>> THEN <<>>
  ELSE IF Len(parts) = 1 THEN parts[1]
  ELSE parts[1] \o <<" ">> \o JoinSp(Tail(parts))

\* ------------------------------------------------------------------------
\* Floats and JSON values
\* ------------------------------------------------------------------------

None == [k |-> "none", v |-> 0]

Fin(h) == [k |-> "fin", v |-> h]

NaN == [k |-> "nan", v |-> 0]

PInf == [k |-> "pinf", v |-> 0]

NInf == [k |-> "ninf", v |-> 0]

IsFinite(x) == x.k = "fin"

\* a key that the mapping does not have (undefined in JavaScript)
Absent == [t |-> "absent", s |-> <<>>, n |-> None, o |-> <<>>]

\* JSON null
Null == [t |-> "null", s |-> <<>>, n |-> None, o |-> <<>>]

Str(s) == [t |-> "str", s |-> s, n |-> None, o |-> <<>>]

Num(x) == [t |-> "num", s |-> <<>>, n |-> x, o |-> <<>>]

\* a nested mapping: entries <<key text, value>> in document order
Obj(entries) == [t |-> "obj", s |-> <<>>, n |-> None, o |-> entries]

\* props.get(k) / props[k]
Get(props, k) == IF k \in DOMAIN props THEN props[k] ELSE Absent

\* "k in props"
HasKey(props, k) == Get(props, k).t # "absent"

\* JavaScript truthiness of a value
Truthy(v) ==
  CASE v.t = "absent" -> FALSE
    [] v.t = "null" -> FALSE
    [] v.t = "str" -> v.s # <<>>
    [] v.t = "num" -> ~(v.n.k = "nan" \/ (v.n.k = "fin" /\ v.n.v = 0))
    [] v.t = "obj" -> TRUE

\* truth value of a Python object (NaN is true, an empty dict is false)
PyTruthy(v) ==
  CASE v.t = "absent" -> FALSE
    [] v.t = "null" -> FALSE
    [] v.t = "str" -> v.s # <<>>
    [] v.t = "num" -> ~(v.n.k = "fin" /\ v.n.v = 0)
    [] v.t = "obj" -> v.o # <<>>

\* ------------------------------------------------------------------------
\* Device-type classifier: infer_type (Python) and inferType (page)
\* ------------------------------------------------------------------------

TYPE_KEYS ==
  <<"type", "Type", "device_type", "kismet.device.base.type",
    "dot11.device.type", "kismet.device.base.typename", "typename">>

\* str(x) of Python for the values the type-ish fields hold
PyStr(v) ==
  CASE v.t = "str" -> v.s
    [] v.t = "null" -> <<"N","o","n","e">>
    [] v.t = "absent" -> <<>>

\* String(x) / x.toString() of JavaScript for the same values
JsString(v) ==
  CASE v.t = "str" -> v.s
    [] v.t = "null" -> <<"n","u","l","l">>
    [] v.t = "absent" -> <<"u","n","d","e","f","i","n","e","d">>

\* (a || b): the first operand when it is truthy, the second otherwise
JsOr(a, b) == IF Truthy(a) THEN a ELSE b

\* " ".join(str(props.get(k, "")) for k in TYPE_KEYS).lower()
PyTypeText(props) ==
  Lower(JoinSp([i \in 1..Len(TYPE_KEYS) |-> PyStr(Get(props, TYPE_KEYS[i]))]))

infer_type(props) ==
  LET text == PyTypeText(props) IN
  IF \E x \in {<<"b","r","i","d","g","e">>, <<"b","r","i","d","g","e","d">>} : Contains(x, text)
    THEN "bridge"
  ELSE IF \E x \in {<<"a","p">>, <<"a","c","c","e","s","s"," ","p","o","i","n","t">>,
                    <<"i","n","f","r","a","s","t","r","u","c","t","u","r","e">>,
                    <<"b","a","s","e"," ","s","t","a","t","i","o","n">>} : Contains(x, text)
    THEN "ap"
  ELSE IF \E x \in {<<"c","l","i","e","n","t">>, <<"s","t","a","t","i","o","n">>, <<"s","t","a">>,
                    <<"p","h","o","n","e">>, <<"l","a","p","t","o","p">>} : Contains(x, text)
    THEN "client"
  ELSE IF HasKey(props, "ssid") /\ PyTruthy(Get(props, "ssid"))
    THEN "ap"
  ELSE "unknown"

\* TYPE_KEYS.map(k => (props[k] || '')).join(' ').toLowerCase()
JsTypeText(props) ==
  Lower(JoinSp([i \in 1..Len(TYPE_KEYS) |->
                  JsString(JsOr(Get(props, TYPE_KEYS[i]), Str(<<>>)))]))

\* (props['Type'] || props['type'] || '').toString().trim().toLowerCase()
JsExplicit(props) ==
  Lower(Strip(JsString(JsOr(JsOr(Get(props, "Type"), Get(props, "type")), Str(<<>>)))))

\* /\bbridge|bridged\b/.test(raw)
ReBridge(raw) ==
  \E i \in 1..Len(raw) :
    \/ MatchAt(<<"b","r","i","d","g","e">>, raw, i) /\ WordBoundary(raw, i)
    \/ MatchAt(<<"b","r","i","d","g","e","d">>, raw, i) /\ WordBoundary(raw, i + 7)

\* /\bclient|station|\bsta\b/.test(raw)
ReClient(raw) ==
  \E i \in 1..Len(raw) :
    \/ MatchAt(<<"c","l","i","e","n","t">>, raw, i) /\ WordBoundary(raw, i)
    \/ MatchAt(<<"s","t","a","t","i","o","n">>, raw, i)
    \/ MatchAt(<<"s","t","a">>, raw, i) /\ WordBoundary(raw, i) /\ WordBoundary(raw, i + 3)

\* /\bwifi\b/.test(raw)
ReWifi(raw) ==
  \E i \in 1..Len(raw) :
    MatchAt(<<"w","i","f","i">>, raw, i) /\ WordBoundary(raw, i) /\ WordBoundary(raw, i + 4)

inferType(props) ==
  LET raw == JsTypeText(props)
      explicit == JsExplicit(props)
      hasSsid == Truthy(JsOr(JsOr(Get(props, "SSID"), Get(props, "ssid")),
                             Get(props, "dot11.device.ssid")))
      hasChan == Truthy(JsOr(JsOr(Get(props, "Channel"), Get(props, "channel")),
                             Get(props, "kismet.device.base.channel")))
      enc == Lower(JsString(JsOr(JsOr(Get(props, "Encryption"), Get(props, "encryption")),
                                 Str(<<>>))))
  IN
  IF explicit = <<"c","l","i","e","n","t">> THEN "client"
  ELSE IF explicit = <<"a","p">> \/ explicit = <<"a","c","c","e","s","s"," ","p","o","i","n","t">>
    THEN "ap"
  ELSE IF explicit = <<"b","r","i","d","g","e">> THEN "bridge"
  ELSE IF ReBridge(raw) THEN "bridge"
  ELSE IF ReClient(raw) THEN "client"
  ELSE IF ReWifi(raw) THEN "ap"
  ELSE IF hasSsid /\ hasChan THEN "ap"
  ELSE IF enc # <<>> /\ enc # <<"u","n","k","n","o","w","n">> /\ enc # <<"o","p","e","n">>
    THEN "ap"
  ELSE "unknown"

\* ------------------------------------------------------------------------
\* Numeric coercion: coerce_float (Python) and coerceFloat (page)
\* ------------------------------------------------------------------------

\* the length of the longest run of digits at the start of s
RECURSIVE DigitRun(_)
DigitRun(s) == IF s # <<>> /\ IsDigit(Head(s)) THEN 1 + DigitRun(Tail(s)) ELSE 0

\* the integer a run of digits denotes
RECURSIVE DigitsValue(_)
DigitsValue(s) ==
  IF s = <<>> THEN 0 ELSE 10 * DigitsValue(SubSeq(s, 1, Len(s) - 1)) + DigitVal(s[Len(s)])

\* a fraction's digits in hundredths (digits past the second are dropped)
FractionValue(s) ==
  IF Len(s) = 0 THEN 0
  ELSE IF Len(s) = 1 THEN 10 * DigitVal(s[1])
  ELSE 10 * DigitVal(s[1]) + DigitVal(s[2])

\* the unsigned decimal "digits[.digits]" or ".digits" that is the whole of s;
\* None when s is not of that form
WholeDecimal(s) ==
  LET ip == DigitRun(s)
      rest == SubSeq(s, ip + 1, Len(s))
      fp == IF rest # <<>> /\ Head(rest) = "." THEN DigitRun(Tail(rest)) ELSE 0
  IN IF rest = <<>> /\ ip > 0 THEN Fin(100 * DigitsValue(SubSeq(s, 1, ip)))
     ELSE IF rest # <<>> /\ Head(rest) = "." /\ Len(rest) = fp + 1 /\ ip + fp > 0
       THEN Fin(100 * DigitsValue(SubSeq(s, 1, ip)) + FractionValue(Tail(rest)))
     ELSE None

Negate(x) ==
  CASE x.k = "fin" -> Fin(0 - x.v)
    [] x.k = "pinf" -> NInf
    [] x.k = "ninf" -> PInf
    [] OTHER -> x

\* float(s) of Python on text: surrounding blanks dropped, an optional sign,
\* then a decimal or one of the spellings nan / inf / infinity in any case;
\* None stands for ValueError
PyFloat(s) ==
  LET t == Strip(s)
      signed == t # <<>> /\ Head(t) \in {"-", "+"}
      body == IF signed THEN Tail(t) ELSE t
      low == Lower(body)
      mag == IF low = <<"n","a","n">> THEN NaN
             ELSE IF low = <<"i","n","f">> \/ low = <<"i","n","f","i","n","i","t","y">> THEN PInf
             ELSE WholeDecimal(body)
  IN IF mag = None THEN None
     ELSE IF signed /\ Head(t) = "-" THEN Negate(mag) ELSE mag

\* parseFloat(s) of JavaScript: leading blanks dropped, then the longest
\* prefix that is a signed decimal or "Infinity"; NaN when there is none
JsParseFloat(s) ==
  LET t == LStrip(s)
      signed == t # <<>> /\ Head(t) \in {"-", "+"}
      body == IF signed THEN Tail(t) ELSE t
      ip == DigitRun(body)
      rest == SubSeq(body, ip + 1, Len(body))
      fp == IF rest # <<>> /\ Head(rest) = "." THEN DigitRun(Tail(rest)) ELSE 0
      mag == IF MatchAt(<<"I","n","f","i","n","i","t","y">>, body, 1) THEN PInf
             ELSE IF ip + fp = 0 THEN NaN
             ELSE Fin(100 * DigitsValue(SubSeq(body, 1, ip))
                      + FractionValue(SubSeq(rest, 2, fp + 1)))
  IN IF signed /\ Head(t) = "-" THEN Negate(mag) ELSE mag

\* re.sub(r"\s*dBm?$", "", s, flags=re.IGNORECASE) / s.replace(/\s*dBm?$/i, '')
StripDbSuffix(s) ==
  IF EndsWith(<<"d","b","m">>, Lower(s)) THEN RStrip(SubSeq(s, 1, Len(s) - 3))
  ELSE IF EndsWith(<<"d","b">>, Lower(s)) THEN RStrip(SubSeq(s, 1, Len(s) - 2))
  ELSE s

coerce_float(val) ==
  CASE val.t \in {"absent", "null"} -> None
    [] val.t = "num" -> val.n
    [] val.t = "str" ->
         PyFloat(ReplaceAllChar(StripDbSuffix(ReplaceAllChar(Strip(val.s), UMinus, "-")),
                                ",", "."))
    \* str() of a dict starts with "{": float() raises ValueError
    [] val.t = "obj" -> None

coerceFloat(x) ==
  CASE x.t \in {"absent", "null"} -> None
    [] x.t = "num" -> x.n
    [] x.t = "str" ->
         LET v == JsParseFloat(ReplaceFirstChar(
                    StripDbSuffix(ReplaceFirstChar(Strip(x.s), UMinus, "-")), ",", "."))
         IN IF IsFinite(v) THEN v ELSE None
    \* String() of an object is "[object Object]": parseFloat gives NaN
    [] x.t = "obj" -> None

\* ------------------------------------------------------------------------
\* Signal extraction: extract_signal_dbm (Python) and extractSignal (page)
\* ------------------------------------------------------------------------

SIGNAL_KEYS ==
  <<"Signal dBm", "signal_dbm",
    "kismet.device.base.signal.kismet.common.signal.last_signal",
    "kismet.device.base.signal/kismet.common.signal.last_signal",
    "kismet.common.signal.last_signal", "last_signal", "signal">>

\* the order in which a property mapping lists the keys it has
KeyOrder ==
  <<"Signal dBm", "signal_dbm", "signal", "radio", "gps", "SSID", "ssid", "Type", "type">>

\* any(p in kk.lower() for p in ["signal", "dbm"]) / /(signal|dbm)/i.test(kk)
IsSignalKey(kk) ==
  Contains(<<"s","i","g","n","a","l">>, Lower(kk)) \/ Contains(<<"d","b","m">>, Lower(kk))

\* PyFlatScan that stops at the first key present, whether or not it parses
RECURSIVE PyFlatScanFirstPresent(_, _)
PyFlatScanFirstPresent(props, i) ==
  IF i > Len(SIGNAL_KEYS) THEN None
  ELSE IF HasKey(props, SIGNAL_KEYS[i]) THEN coerce_float(Get(props, SIGNAL_KEYS[i]))
  ELSE PyFlatScanFirstPresent(props, i + 1)

\* the loop over SIGNAL_KEYS from index i on
RECURSIVE PyFlatScan(_, _)
PyFlatScan(props, i) ==
  IF i > Len(SIGNAL_KEYS) THEN None
  ELSE IF HasKey(props, SIGNAL_KEYS[i]) /\ coerce_float(Get(props, SIGNAL_KEYS[i])) # None
    THEN coerce_float(Get(props, SIGNAL_KEYS[i]))
  ELSE PyFlatScan(props, i + 1)

\* the loop over the entries of one nested mapping from index j on
RECURSIVE PyEntryScan(_, _)
PyEntryScan(entries, j) ==
  IF j > Len(entries) THEN None
  ELSE IF IsSignalKey(entries[j].key) /\ coerce_float(entries[j].val) # None
    THEN coerce_float(entries[j].val)
  ELSE PyEntryScan(entries, j + 1)

\* the loop over props.items() from index i of KeyOrder on
RECURSIVE PyNestedScan(_, _)
PyNestedScan(props, i) ==
  IF i > Len(KeyOrder) THEN None
  ELSE IF Get(props, KeyOrder[i]).t = "obj" /\ PyEntryScan(Get(props, KeyOrder[i]).o, 1) # None
    THEN PyEntryScan(Get(props, KeyOrder[i]).o, 1)
  ELSE PyNestedScan(props, i + 1)

extract_signal_dbm(props) ==
  IF PyFlatScan(props, 1) # None THEN PyFlatScan(props, 1) ELSE PyNestedScan(props, 1)

RECURSIVE JsFlatScan(_, _)
JsFlatScan(props, i) ==
  IF i > Len(SIGNAL_KEYS) THEN None
  ELSE IF HasKey(props, SIGNAL_KEYS[i]) /\ coerceFloat(Get(props, SIGNAL_KEYS[i])) # None
    THEN coerceFloat(Get(props, SIGNAL_KEYS[i]))
  ELSE JsFlatScan(props, i + 1)

RECURSIVE JsEntryScan(_, _)
JsEntryScan(entries, j) ==
  IF j > Len(entries) THEN None
  ELSE IF IsSignalKey(entries[j].key) /\ coerceFloat(entries[j].val) # None
    THEN coerceFloat(entries[j].val)
  ELSE JsEntryScan(entries, j + 1)

RECURSIVE JsNestedScan(_, _)
JsNestedScan(props, i) ==
  IF i > Len(KeyOrder) THEN None
  ELSE IF Get(props, KeyOrder[i]).t = "obj" /\ JsEntryScan(Get(props, KeyOrder[i]).o, 1) # None
    THEN JsEntryScan(Get(props, KeyOrder[i]).o, 1)
  ELSE JsNestedScan(props, i + 1)

extractSignal(props) ==
  IF JsFlatScan(props, 1) # None THEN JsFlatScan(props, 1) ELSE JsNestedScan(props, 1)

\* ------------------------------------------------------------------------
\* State
\* ------------------------------------------------------------------------

VARIABLES
  tprops,      \* classifier: the property mapping handed to the classifier
  pyType,      \* classifier: result of infer_type, "none" before the call
  jsType,      \* classifier: result of inferType, "none" before the call
  sprops,      \* signal: the property mapping handed to the extractor
  pySig,       \* signal: result of extract_signal_dbm, Pending before the call
  jsSig,       \* signal: result of extractSignal, Pending before the call
  csvRows,     \* csv: the data rows csv.DictReader yields, in file order
  csvIdx,      \* csv: index of the row the loop reads next
  csvFeatures, \* csv: the features list
  csvSrc,      \* csv: for each feature, the index of the row it was built from
  nxDoc,       \* netxml: the wireless-network elements of the document, in order
  nxIdx,       \* netxml: index of the element the loop reads next
  nxRows,      \* netxml: the rows list
  nxFeatures,  \* netxml: the features list
  nxSrc,       \* netxml: for each feature, the index of the element it was built from
  nxPc,        \* netxml: "run" in the loop, "done" after return, "aborted" on an exception
  geojson,     \* page: the features of the embedded GEOJSON
  items,       \* page: the items array built from the features
  modeVal,     \* page: the checked radio of name "mode"
  minsig,      \* page: the value of the #minsig slider, in dBm
  typesChecked,\* page: the values of the checked .flt-type boxes
  ssidq,       \* page: the text of the #ssidq input
  ssidTimer,   \* page: the number of pending timeouts set by the #ssidq handler
  viewFresh,   \* page: TRUE when the last handler to run ended with refresh()
  legend,      \* page: which legend #legend shows
  markerFill,  \* page: per item, the fillColor of its marker, "none" without a marker
  cluster,     \* page: the items whose markers are in the cluster layer
  countText    \* page: the number shown in the #count pill

typeVars == <<tprops, pyType, jsType>>

sigVars == <<sprops, pySig, jsSig>>

csvVars == <<csvRows, csvIdx, csvFeatures, csvSrc>>

nxVars == <<nxDoc, nxIdx, nxRows, nxFeatures, nxSrc, nxPc>>

pageVars ==
  <<geojson, items, modeVal, minsig, typesChecked, ssidq, ssidTimer, viewFresh,
    legend, markerFill, cluster, countText>>

vars == <<typeVars, sigVars, csvVars, nxVars, pageVars>>

\* a result that has not been computed yet
Pending == [k |-> "pending", v |-> 0]

TypeIdle == tprops = <<>> /\ pyType = "none" /\ jsType = "none"

SigIdle == sprops = <<>> /\ pySig = Pending /\ jsSig = Pending

CsvIdle == csvRows = <<>> /\ csvIdx = 1 /\ csvFeatures = <<>> /\ csvSrc = <<>>

NxIdle ==
  nxDoc = <<>> /\ nxIdx = 1 /\ nxRows = <<>> /\ nxFeatures = <<>> /\ nxSrc = <<>> /\ nxPc = "idle"

PageIdle ==
  /\ geojson = <<>> /\ items = <<>> /\ modeVal = "type" /\ minsig = -120
  /\ typesChecked = {} /\ ssidq = <<>> /\ ssidTimer = 0 /\ viewFresh = FALSE
  /\ legend = "none" /\ markerFill = <<>> /\ cluster = {} /\ countText = 0

notType == <<sigVars, csvVars, nxVars, pageVars>>

notSig == <<typeVars, csvVars, nxVars, pageVars>>

notCsv == <<typeVars, sigVars, nxVars, pageVars>>

notNx == <<typeVars, sigVars, csvVars, pageVars>>

notPage == <<typeVars, sigVars, csvVars, nxVars>>

\* ------------------------------------------------------------------------
\* Classifier runs
\* ------------------------------------------------------------------------

TypeFieldValues ==
  {Absent, Str(<<"c","l","i","e","n","t">>), Str(<<"A","P">>), Str(<<"B","r","i","d","g","e">>),
   Str(<<"W","I","F","I">>), Str(<<"A","c","c","e","s","s"," ","P","o","i","n","t">>)}

LowerTypeFieldValues ==
  {Absent, Str(<<"s","t","a","t","i","o","n">>), Str(<<"a","p">>)}

DeviceTypeValues ==
  {Absent, Str(<<"W","i","-","F","i"," ","A","P">>), Str(<<"l","a","p","t","o","p">>),
   Str(<<"n","e","t","b","r","i","d","g","e">>), Str(<<"w","i","f","i","6">>),
   Str(<<"b","r","i","d","g","e","d">>), Str(<<"s","t","a">>)}

SsidValues == {Absent, Str(<<>>), Str(<<"x">>)}

LowerSsidValues == {Absent, Str(<<"y">>)}

ChannelValues == {Absent, Str(<<"6">>), Num(Fin(0))}

EncryptionValues ==
  {Absent, Str(<<"W","P","A","2">>), Str(<<"O","p","e","n">>), Str(<<"u","n","k","n","o","w","n">>)}

TypeInputs ==
  [Type : TypeFieldValues, type : LowerTypeFieldValues, device_type : DeviceTypeValues,
   SSID : SsidValues, ssid : LowerSsidValues, Channel : ChannelValues,
   Encryption : EncryptionValues]

InitType ==
  /\ tprops \in TypeInputs
  /\ pyType = "none"
  /\ jsType = "none"
  /\ SigIdle
  /\ CsvIdle
  /\ NxIdle
  /\ PageIdle

InferTypePy ==
  /\ pyType = "none"
  /\ pyType' = infer_type(tprops)
  /\ UNCHANGED <<tprops, jsType, notType>>

InferTypeJs ==
  /\ jsType = "none"
  /\ jsType' = inferType(tprops)
  /\ UNCHANGED <<tprops, pyType, notType>>

NextType == InferTypePy \/ InferTypeJs

SpecType == InitType /\ [][NextType]_vars

\* ------------------------------------------------------------------------
\* Claims about the classifier
\* ------------------------------------------------------------------------

\* the category an explicit Type/type field names, "none" when it names none
ExplicitCategory(props) ==
  LET f == JsOr(Get(props, "Type"), Get(props, "type"))
      e == IF f.t = "str" THEN Lower(f.s) ELSE <<>>
  IN IF e = <<"c","l","i","e","n","t">> THEN "client"
     ELSE IF e = <<"a","p">> \/ e = <<"a","c","c","e","s","s"," ","p","o","i","n","t">> THEN "ap"
     ELSE IF e = <<"b","r","i","d","g","e">> THEN "bridge"
     ELSE "none"

\* C1 for the Python copy alone
ExplicitTypeWinsPy ==
  (pyType # "none" /\ ExplicitCategory(tprops) # "none") => pyType = ExplicitCategory(tprops)

\* C1 for the page copy alone
ExplicitTypeWinsJs ==
  (jsType # "none" /\ ExplicitCategory(tprops) # "none") => jsType = ExplicitCategory(tprops)

\* C1: whenever the explicit Type/type field equals "client", "ap"/"access
\* point" or "bridge" case-insensitively, both infer_type and inferType return
\* that category, whatever the other fields hold.
C1_ExplicitTypeWins == ExplicitTypeWinsPy /\ ExplicitTypeWinsJs

\* the lowercased text of all type-ish fields, joined by spaces
TypeText(props) ==
  Lower(JoinSp([i \in 1..Len(TYPE_KEYS) |->
     IF Get(props, TYPE_KEYS[i]).t = "str" THEN Get(props, TYPE_KEYS[i]).s ELSE <<>>]))

\* the rule order as the claim words it: substring tests, a standalone "sta"
RuleOrderResult(props) ==
  LET text == TypeText(props)
      present(keys) == \E k \in keys : Truthy(Get(props, k))
      enc == LET f == JsOr(Get(props, "Encryption"), Get(props, "encryption"))
             IN IF f.t = "str" THEN Lower(f.s) ELSE <<>>
  IN
  IF Contains(<<"b","r","i","d","g","e">>, text) THEN "bridge"
  ELSE IF \/ Contains(<<"c","l","i","e","n","t">>, text)
          \/ Contains(<<"s","t","a","t","i","o","n">>, text)
          \/ \E i \in 1..Len(text) : /\ MatchAt(<<"s","t","a">>, text, i)
                                     /\ WordBoundary(text, i)
                                     /\ WordBoundary(text, i + 3)
    THEN "client"
  ELSE IF Contains(<<"w","i","f","i">>, text) THEN "ap"
  ELSE IF present({"SSID", "ssid", "dot11.device.ssid"})
          /\ present({"Channel", "channel", "kismet.device.base.channel"})
    THEN "ap"
  ELSE IF enc # <<>> /\ enc # <<"u","n","k","n","o","w","n">> /\ enc # <<"o","p","e","n">>
    THEN "ap"
  ELSE "unknown"

\* C2 for the Python copy alone
RuleOrderPy ==
  (pyType # "none" /\ ExplicitCategory(tprops) = "none") => pyType = RuleOrderResult(tprops)

\* C2 for the page copy alone
RuleOrderJs ==
  (jsType # "none" /\ ExplicitCategory(tprops) = "none") => jsType = RuleOrderResult(tprops)

\* C2: with no explicit exact match, both copies return the result of the
\* first matching rule in the order bridge, client/station/sta, wifi,
\* SSID+Channel, Encryption, unknown.
C2_FirstMatchingRule == RuleOrderPy /\ RuleOrderJs

\* ------------------------------------------------------------------------
\* Signal extraction runs
\* ------------------------------------------------------------------------

SignalValues ==
  {Absent, Null, Num(Fin(-6700)), Num(NaN),
   Str(<<"-","6","7","d","b","m">>), Str(<<UMinus,"7","5"," ","d","B","m">>),
   Str(<<"-","0",",","7","5">>), Str(<<"n","/","a">>), Str(<<"n","a","n">>),
   Str(<<"i","n","f">>), Str(<<"-","8","1","a","b","c">>)}

LastSignalValues ==
  {Absent, Num(Fin(-5000)), Str(<<"I","n","f","i","n","i","t","y">>),
   Obj(<<[key |-> <<"l","a","s","t","_","s","i","g","n","a","l">>, val |-> Num(Fin(-6000))]>>)}

NestedValues ==
  {Absent, Obj(<<>>),
   Obj(<<[key |-> <<"n","o","i","s","e">>, val |-> Num(Fin(-9000))],
         [key |-> <<"M","a","x","_","D","B","M">>, val |-> Str(<<"n","/","a">>)],
         [key |-> <<"m","i","n","_","d","b","m">>, val |-> Str(<<"-","7","0">>)]>>),
   Obj(<<[key |-> <<"S","i","g","n","a","l">>, val |-> Str(<<"n","a","n">>)]>>)}

SignalInputs ==
  { [k \in {"Signal dBm", "signal_dbm", "signal", "radio"} |->
       CASE k = "Signal dBm" -> a [] k = "signal_dbm" -> b [] k = "signal" -> c [] k = "radio" -> d] :
    a \in SignalValues, b \in SignalValues, c \in LastSignalValues, d \in NestedValues }

InitSignal ==
  /\ sprops \in SignalInputs
  /\ pySig = Pending
  /\ jsSig = Pending
  /\ TypeIdle
  /\ CsvIdle
  /\ NxIdle
  /\ PageIdle

ExtractSignalPy ==
  /\ pySig = Pending
  /\ pySig' = extract_signal_dbm(sprops)
  /\ UNCHANGED <<sprops, jsSig, notSig>>

ExtractSignalJs ==
  /\ jsSig = Pending
  /\ jsSig' = extractSignal(sprops)
  /\ UNCHANGED <<sprops, pySig, notSig>>

NextSignal == ExtractSignalPy \/ ExtractSignalJs

SpecSignal == InitSignal /\ [][NextSignal]_vars

\* ------------------------------------------------------------------------
\* Claims about signal extraction
\* ------------------------------------------------------------------------

\* C5 for the Python copy alone
FiniteOrAbsentPy == pySig = Pending \/ pySig = None \/ IsFinite(pySig)

\* C5 for the page copy alone
FiniteOrAbsentJs == jsSig = Pending \/ jsSig = None \/ IsFinite(jsSig)

\* C5: for every property mapping, extract_signal_dbm and extractSignal return
\* absent or a finite float, never NaN or an infinity.
C5_FiniteOrAbsent == FiniteOrAbsentPy /\ FiniteOrAbsentJs

\* the most entries a nested mapping of the inputs holds
MaxEntries == 3

\* the ranks of the flat keys that are present and parse under coercion c
FlatCandidates(props, c(_)) ==
  { i \in 1..Len(SIGNAL_KEYS) :
      HasKey(props, SIGNAL_KEYS[i]) /\ c(Get(props, SIGNAL_KEYS[i])) # None }

\* the positions <<i, j>> of nested entries whose key names a signal and
\* whose value parses under coercion c
NestedCandidates(props, c(_)) ==
  { p \in (1..Len(KeyOrder)) \X (1..MaxEntries) :
      /\ Get(props, KeyOrder[p[1]]).t = "obj"
      /\ p[2] <= Len(Get(props, KeyOrder[p[1]]).o)
      /\ IsSignalKey(Get(props, KeyOrder[p[1]]).o[p[2]].key)
      /\ c(Get(props, KeyOrder[p[1]]).o[p[2]].val) # None }

\* res is what a ranked walk must return from props under coercion c
RankedFirst(props, c(_), res) ==
  LET flat == FlatCandidates(props, c)
      nested == NestedCandidates(props, c)
  IN /\ flat # {} =>
          \E i \in flat : /\ \A j \in flat : i <= j
                          /\ res = c(Get(props, SIGNAL_KEYS[i]))
     /\ (flat = {} /\ nested # {}) =>
          \E p \in nested :
             /\ \A q \in nested : p[1] < q[1] \/ (p[1] = q[1] /\ p[2] <= q[2])
             /\ res = c(Get(props, KeyOrder[p[1]]).o[p[2]].val)
     /\ (flat = {} /\ nested = {}) => (res = None /\ res # Fin(0))

\* C6: the extractor returns the coerced value of the first ranked key that is
\* present and parses, passing over present keys that do not parse; nested
\* mappings are consulted only when no flat key yielded a value; the result
\* is one candidate's value, and absent (not zero) when nothing parses.
C6_FirstParsingKey ==
  /\ pySig # Pending => RankedFirst(sprops, coerce_float, pySig)
  /\ jsSig # Pending => RankedFirst(sprops, coerceFloat, jsSig)

\* both extractors have run on a mapping whose first-ranked key is present
\* but does not parse and whose second-ranked key parses, and on which a
\* nested mapping also offers a candidate
C6_Witness ==
  /\ pySig # Pending
  /\ jsSig # Pending
  /\ HasKey(sprops, "Signal dBm")
  /\ coerce_float(Get(sprops, "Signal dBm")) = None
  /\ coerceFloat(Get(sprops, "Signal dBm")) = None
  /\ pySig = coerce_float(Get(sprops, "signal_dbm"))
  /\ jsSig = coerceFloat(Get(sprops, "signal_dbm"))
  /\ pySig = Fin(-75)
  /\ jsSig = Fin(-75)
  /\ NestedCandidates(sprops, coerce_float) # {}

\* ------------------------------------------------------------------------
\* CSV ingest: scripts/csv_to_geojson.py
\* ------------------------------------------------------------------------

\* (a or b) of Python
PyOr(a, b) == IF PyTruthy(a) THEN a ELSE b

\* row.get(col): None when the header has no such column
RowGet(row, col) == IF HasKey(row, col) THEN Get(row, col) ELSE Null

\* row.get(col, default)
RowGetDefault(row, col, default) == IF HasKey(row, col) THEN Get(row, col) ELSE default

\* str(val) of a csv field
FieldText(val) == IF val.t = "str" THEN val.s ELSE <<"N","o","n","e">>

to_float(val) ==
  IF val.t = "null" THEN None
  ELSE LET s == ReplaceAllChar(RemoveAll(<<"d","b","m">>, Lower(Strip(FieldText(val)))), "-", "-")
       IN IF s \in {<<>>, <<"n","o","n","e">>, <<"n","a","n">>} THEN None
          ELSE IF PyFloat(s) # None THEN PyFloat(s)
          ELSE PyFloat(ReplaceAllChar(s, ",", "."))

\* abs(x) < 1e-4 for a float kept in hundredths
NearZero(x) == x.k = "fin" /\ x.v = 0

\* the latitude text the loop reads from a row
RowLat(row) == PyOr(RowGet(row, "CurrentLatitude"), RowGet(row, "Latitude"))

\* the longitude text the loop reads from a row
RowLon(row) == PyOr(RowGet(row, "CurrentLongitude"), RowGet(row, "Longitude"))

\* the row passes every "continue" of the loop body
RowKept(row) ==
  /\ PyTruthy(RowLat(row))
  /\ PyTruthy(RowLon(row))
  /\ PyFloat(FieldText(RowLat(row))) # None
  /\ PyFloat(FieldText(RowLon(row))) # None
  /\ ~(NearZero(PyFloat(FieldText(RowLat(row)))) /\ NearZero(PyFloat(FieldText(RowLon(row)))))

\* the feature dictionary the loop body builds
CsvFeature(row) ==
  [ type |-> "Feature",
    geometry |-> [ type |-> "Point",
                   coordinates |-> << PyFloat(FieldText(RowLon(row))),
                                      PyFloat(FieldText(RowLat(row))) >> ],
    properties |-> [ SSID |-> RowGetDefault(row, "SSID", Str(<<"h","i","d","d","e","n">>)),
                     BSSID |-> RowGetDefault(row, "MAC", Str(<<>>)),
                     Channel |-> RowGetDefault(row, "Channel", Str(<<>>)),
                     Signal |-> IF to_float(RowGet(row, "RSSI")) = None THEN Null
                                ELSE Num(to_float(RowGet(row, "RSSI"))),
                     Encryption |-> RowGetDefault(row, "AuthMode", Str(<<>>)) ] ]

\* the most data rows of an input file
MaxRows == 2

CurrentLatitudeValues ==
  {Str(<<"4","7",".","5">>), Str(<<>>), Str(<<"n","a","n">>), Str(<<"a","b","c">>), Str(<<"0">>)}

CurrentLongitudeValues ==
  {Str(<<"1","9",".","0">>), Str(<<"i","n","f">>), Str(<<"0">>)}

RssiValues == {Str(<<"-","6","7","d","b","m">>), Str(<<>>)}

CsvSsidValues == {Str(<<>>), Str(<<"h","o","m","e">>)}

\* rows of a file whose header names an SSID column
RowsWithSsid ==
  [CurrentLatitude : CurrentLatitudeValues, CurrentLongitude : CurrentLongitudeValues,
   Latitude : {Str(<<"4","8",".","2","5">>)}, RSSI : RssiValues, SSID : CsvSsidValues]

\* rows of a file whose header has no SSID column
RowsWithoutSsid ==
  [CurrentLatitude : CurrentLatitudeValues, CurrentLongitude : CurrentLongitudeValues,
   Latitude : {Str(<<"4","8",".","2","5">>)}, RSSI : RssiValues]

CsvInputs ==
  UNION { [1..n -> RowsWithSsid] \cup [1..n -> RowsWithoutSsid] : n \in 0..MaxRows }

InitCsv ==
  /\ csvRows \in CsvInputs
  /\ csvIdx = 1
  /\ csvFeatures = <<>>
  /\ csvSrc = <<>>
  /\ TypeIdle
  /\ SigIdle
  /\ NxIdle
  /\ PageIdle

\* one iteration of "for row in reader"
CsvRow ==
  /\ csvIdx <= Len(csvRows)
  /\ csvIdx' = csvIdx + 1
  /\ IF RowKept(csvRows[csvIdx])
     THEN /\ csvFeatures' = Append(csvFeatures, CsvFeature(csvRows[csvIdx]))
          /\ csvSrc' = Append(csvSrc, csvIdx)
     ELSE UNCHANGED <<csvFeatures, csvSrc>>
  /\ UNCHANGED <<csvRows, notCsv>>

NextCsv == CsvRow

SpecCsv == InitCsv /\ [][NextCsv]_vars

\* ------------------------------------------------------------------------
\* Claims about the CSV ingest
\* ------------------------------------------------------------------------

\* the row of end-to-end scenario 1
ScenarioRow(row) ==
  /\ Get(row, "CurrentLatitude") = Str(<<"4","7",".","5">>)
  /\ Get(row, "CurrentLongitude") = Str(<<"1","9",".","0">>)
  /\ Get(row, "RSSI") = Str(<<"-","6","7","d","b","m">>)
  /\ Get(row, "SSID") = Str(<<>>)

\* C7: every feature emitted for a row whose SSID column is blank or missing
\* has SSID "hidden"; the scenario row yields coordinates [19.0, 47.5], SSID
\* "hidden" and Signal -67.0.
C7_BlankSsidIsHidden ==
  \A f \in 1..Len(csvFeatures) :
    LET row == csvRows[csvSrc[f]]
        feat == csvFeatures[f]
    IN /\ Get(row, "SSID") \in {Absent, Str(<<>>)} =>
            feat.properties.SSID = Str(<<"h","i","d","d","e","n">>)
       /\ ScenarioRow(row) =>
            /\ feat.geometry.coordinates = <<Fin(1900), Fin(4750)>>
            /\ feat.properties.SSID = Str(<<"h","i","d","d","e","n">>)
            /\ feat.properties.Signal = Num(Fin(-6700))

\* C7 without the SSID default: what the scenario row does yield
ScenarioRowFeature ==
  \A f \in 1..Len(csvFeatures) :
    ScenarioRow(csvRows[csvSrc[f]]) =>
      /\ csvFeatures[f].geometry.coordinates = <<Fin(1900), Fin(4750)>>
      /\ csvFeatures[f].properties.SSID = Str(<<>>)
      /\ csvFeatures[f].properties.Signal = Num(Fin(-6700))

\* ------------------------------------------------------------------------
\* Kismet ingest: parse_netxml of scripts/parse_netxml.py
\* ------------------------------------------------------------------------

UpperChar(c) ==
  IF c \in Range(LowerChars)
  THEN UpperChars[CHOOSE i \in DOMAIN LowerChars : LowerChars[i] = c]
  ELSE c

\* str.upper()
Upper(s) == [i \in 1..Len(s) |-> UpperChar(s[i])]

\* A sub-element of a record is Absent (find() returns None), Null (the
\* element is there and its text is None) or Str(text).

\* "el.text if el is not None else default"
TextOr(el, default) == IF el.t = "absent" THEN default ELSE el

\* a method call on the text of el raises AttributeError
RaisesOnText(el) == el.t = "null"

\* the record makes an attribute access on None: lines 13 and 16
NxRaises(net) == RaisesOnText(net.essid) \/ RaisesOnText(net.encryption)

NxSsid(net) ==
  LET t == Strip(TextOr(net.essid, Str(<<"h","i","d","d","e","n">>)).s)
  IN IF t # <<>> THEN Str(t) ELSE Str(<<"h","i","d","d","e","n">>)

NxEnc(net) == Str(Upper(TextOr(net.encryption, Str(<<"u","n","k","n","o","w","n">>)).s))

NxLat(net) == TextOr(net.lat, Null)

NxLon(net) == TextOr(net.lon, Null)

\* the list appended to rows
NxRow(net) ==
  << NxSsid(net), PyOr(net.bssid, Str(<<"u","n","k","n","o","w","n">>)), NxEnc(net),
     TextOr(net.channel, Str(<<>>)), NxLat(net), NxLon(net), TextOr(net.rssi, Str(<<>>)) >>

\* "if lat and lon" holds and neither float() raises ValueError
NxHasFeature(net) ==
  /\ PyTruthy(NxLat(net))
  /\ PyTruthy(NxLon(net))
  /\ PyFloat(NxLon(net).s) # None
  /\ PyFloat(NxLat(net).s) # None

NxFeature(net) ==
  [ type |-> "Feature",
    geometry |-> [ type |-> "Point",
                   coordinates |-> << PyFloat(NxLon(net).s), PyFloat(NxLat(net).s) >> ],
    properties |-> [ SSID |-> NxSsid(net),
                     BSSID |-> PyOr(net.bssid, Str(<<"u","n","k","n","o","w","n">>)),
                     Encryption |-> NxEnc(net),
                     Channel |-> TextOr(net.channel, Str(<<>>)),
                     Signal |-> TextOr(net.rssi, Str(<<>>)) ] ]

\* the most wireless-network elements of an input document
MaxRecords == 2

NxRecords ==
  [ bssid : {Str(<<"A","A",":","0","1">>)},
    essid : {Absent, Null, Str(<<" "," ">>), Str(<<"h","o","m","e">>)},
    encryption : {Absent, Null, Str(<<"w","p","a","2">>)},
    channel : {Absent, Str(<<"6">>)},
    rssi : {Absent, Str(<<"-","7","0">>)},
    lat : {Absent, Null, Str(<<"4","7",".","5">>), Str(<<"n","a","n">>)},
    lon : {Str(<<"1","9",".","0">>), Str(<<"a","b","c">>)} ]

NxInputs == UNION { [1..n -> NxRecords] : n \in 0..MaxRecords }

InitNx ==
  /\ nxDoc \in NxInputs
  /\ nxIdx = 1
  /\ nxRows = <<>>
  /\ nxFeatures = <<>>
  /\ nxSrc = <<>>
  /\ nxPc = "run"
  /\ TypeIdle
  /\ SigIdle
  /\ CsvIdle
  /\ PageIdle

\* one iteration of "for net in root.findall(...)"
NxRecord ==
  /\ nxPc = "run"
  /\ nxIdx <= Len(nxDoc)
  /\ IF NxRaises(nxDoc[nxIdx])
     THEN /\ nxPc' = "aborted"
          /\ UNCHANGED <<nxIdx, nxRows, nxFeatures, nxSrc>>
     ELSE /\ nxRows' = Append(nxRows, NxRow(nxDoc[nxIdx]))
          /\ IF NxHasFeature(nxDoc[nxIdx])
             THEN /\ nxFeatures' = Append(nxFeatures, NxFeature(nxDoc[nxIdx]))
                  /\ nxSrc' = Append(nxSrc, nxIdx)
             ELSE UNCHANGED <<nxFeatures, nxSrc>>
          /\ nxIdx' = nxIdx + 1
          /\ UNCHANGED nxPc
  /\ UNCHANGED <<nxDoc, notNx>>

\* "return rows, {...}" after the loop
NxReturn ==
  /\ nxPc = "run"
  /\ nxIdx > Len(nxDoc)
  /\ nxPc' = "done"
  /\ UNCHANGED <<nxDoc, nxIdx, nxRows, nxFeatures, nxSrc, notNx>>

NextNx == NxRecord \/ NxReturn

SpecNx == InitNx /\ [][NextNx]_vars

\* ------------------------------------------------------------------------
\* Claims about the ingest converters
\* ------------------------------------------------------------------------

\* text that is present and spells a finite number
FiniteText(val) == val.t = "str" /\ val.s # <<>> /\ PyFloat(val.s) # None /\ IsFinite(PyFloat(val.s))

StrictlyIncreasing(seq) == \A i, j \in 1..Len(seq) : i < j => seq[i] < seq[j]

\* C8 for the CSV converter alone
CsvCoordinatesFinite ==
  /\ \A f \in 1..Len(csvFeatures) :
        /\ Len(csvFeatures[f].geometry.coordinates) = 2
        /\ IsFinite(csvFeatures[f].geometry.coordinates[1])
        /\ IsFinite(csvFeatures[f].geometry.coordinates[2])
  /\ \A r \in 1..(csvIdx - 1) :
        ~(FiniteText(RowLat(csvRows[r])) /\ FiniteText(RowLon(csvRows[r])))
          => \A f \in 1..Len(csvSrc) : csvSrc[f] # r
  /\ StrictlyIncreasing(csvSrc)

\* C8 for the Kismet converter alone
NxCoordinatesFinite ==
  /\ \A f \in 1..Len(nxFeatures) :
        /\ Len(nxFeatures[f].geometry.coordinates) = 2
        /\ IsFinite(nxFeatures[f].geometry.coordinates[1])
        /\ IsFinite(nxFeatures[f].geometry.coordinates[2])
  /\ \A r \in 1..(nxIdx - 1) :
        ~(FiniteText(nxDoc[r].lat) /\ FiniteText(nxDoc[r].lon))
          => \A f \in 1..Len(nxSrc) : nxSrc[f] # r
  /\ StrictlyIncreasing(nxSrc)

\* C8: in both converters every emitted feature has two finite coordinates; a
\* row or record whose latitude or longitude is missing, empty, non-numeric
\* or a non-finite spelling contributes no feature, and the others are
\* emitted in input order.
C8_CoordinatesFinite == CsvCoordinatesFinite /\ NxCoordinatesFinite

\* C8 with "parses as a float" in place of "is finite": what the code keeps
CsvCoordinatesParsed ==
  /\ \A f \in 1..Len(csvFeatures) :
        /\ csvFeatures[f].geometry.coordinates[1] # None
        /\ csvFeatures[f].geometry.coordinates[2] # None
  /\ StrictlyIncreasing(csvSrc)

\* the text of a sub-element is absent or blank after trimming
BlankOrAbsent(el) == el.t \in {"absent", "null"} \/ Strip(el.s) = <<>>

\* parse_netxml never raises on a record
NxNeverAborts == nxPc # "aborted"

\* on return there is one row per record, in order, with the documented defaults
NxRowPerRecord ==
  nxPc = "done" =>
    /\ Len(nxRows) = Len(nxDoc)
    /\ \A i \in 1..Len(nxDoc) :
          /\ BlankOrAbsent(nxDoc[i].essid) => nxRows[i][1] = Str(<<"h","i","d","d","e","n">>)
          /\ ~BlankOrAbsent(nxDoc[i].essid) => nxRows[i][1] = Str(Strip(nxDoc[i].essid.s))
          /\ nxDoc[i].encryption.t = "absent" =>
                nxRows[i][3] = Str(<<"u","n","k","n","o","w","n">>)
          /\ nxDoc[i].encryption.t = "str" => nxRows[i][3] = Str(Upper(nxDoc[i].encryption.s))
    /\ \A i \in 1..Len(nxDoc) :
          (\E f \in 1..Len(nxSrc) : nxSrc[f] = i)
            <=> (nxDoc[i].lat.t = "str" /\ nxDoc[i].lon.t = "str"
                 /\ PyFloat(nxDoc[i].lat.s) # None /\ PyFloat(nxDoc[i].lon.s) # None)

\* C9: parse_netxml never aborts on a record's content; it returns one flat
\* row per record in document order, SSID "hidden" when the essid is absent or
\* blank, Encryption "unknown" when absent and uppercased otherwise, and a
\* feature only for records whose latitude and longitude are present and parse.
C9_NeverAborts == NxNeverAborts /\ NxRowPerRecord

\* ------------------------------------------------------------------------
\* Rendered page: items, filter predicate, marker colors, refresh
\* ------------------------------------------------------------------------

\* x < y and x >= y of JavaScript on floats: false whenever an operand is NaN
JsLess(x, y) ==
  CASE x.k = "nan" \/ y.k = "nan" -> FALSE
    [] x.k = "ninf" -> y.k # "ninf"
    [] x.k = "pinf" -> FALSE
    [] y.k = "pinf" -> TRUE
    [] y.k = "ninf" -> FALSE
    [] OTHER -> x.v < y.v

JsGeq(x, y) == x.k # "nan" /\ y.k # "nan" /\ ~JsLess(x, y)

\* A coordinates entry is a number or a nested position (an array).
CoordNum(h) == [a |-> "num", x |-> Fin(h), p |-> <<>>]

CoordPos(lon, lat) == [a |-> "pos", x |-> None, p |-> <<Fin(lon), Fin(lat)>>]

\* "geometry": null
NoGeometry == [type |-> "null", coordinates |-> <<>>]

\* f.geometry && f.geometry.coordinates && f.geometry.coordinates.length >= 2
\*   ? [coordinates[1], coordinates[0]] : null       (<<>> stands for null)
LatLng(f) ==
  IF f.geometry.type # "null" /\ Len(f.geometry.coordinates) >= 2
  THEN <<f.geometry.coordinates[2], f.geometry.coordinates[1]>>
  ELSE <<>>

\* the object features.map builds for one feature
Item(f) ==
  [ latlng |-> LatLng(f),
    props |-> f.properties,
    signal |-> extractSignal(f.properties),
    type |-> inferType(f.properties),
    raw |-> f ]

\* features.map(...).filter(x => Array.isArray(x.latlng))
RECURSIVE BuildItems(_)
BuildItems(features) ==
  IF features = <<>> THEN <<>>
  ELSE IF Item(Head(features)).latlng # <<>>
    THEN <<Item(Head(features))>> \o BuildItems(Tail(features))
  ELSE BuildItems(Tail(features))

DeviceTypes == {"ap", "client", "bridge", "unknown"}

\* (ssidqEl.value || '').trim().toLowerCase()
ssidQuery(q) == Lower(Strip(q))

\* the SSID text passesFilters searches
ItemSsid(it) ==
  Lower(JsString(JsOr(JsOr(JsOr(Get(it.props, "SSID"), Get(it.props, "ssid")),
                           Get(it.props, "dot11.device.ssid")), Str(<<>>))))

passesFilters(it, types, minSig, q) ==
  IF it.type \notin types THEN FALSE
  ELSE IF it.signal # None /\ JsLess(it.signal, Fin(100 * minSig)) THEN FALSE
  ELSE IF ssidQuery(q) # <<>> /\ ~Contains(ssidQuery(q), ItemSsid(it)) THEN FALSE
  ELSE TRUE

TYPE_COLORS ==
  [bridge |-> "#1e88e5", ap |-> "#43a047", client |-> "#fb8c00", unknown |-> "#9e9e9e"]

colorBySignal(dbm) ==
  IF dbm = None THEN "#9e9e9e"
  ELSE IF JsGeq(dbm, Fin(-6000)) THEN "#2e7d32"
  ELSE IF JsGeq(dbm, Fin(-7500)) THEN "#f9a825"
  ELSE "#c62828"

markerStyle(it, mode) ==
  IF mode = "type" THEN TYPE_COLORS[it.type] ELSE colorBySignal(it.signal)

\* the value of "shown" when the loop of refresh() has run over items 1..n
RECURSIVE ShownAfter(_, _, _, _, _)
ShownAfter(its, n, types, minSig, q) ==
  IF n = 0 THEN 0
  ELSE ShownAfter(its, n - 1, types, minSig, q)
       + (IF passesFilters(its[n], types, minSig, q) THEN 1 ELSE 0)

\* the layers of the cluster after clearLayers() and the loop of refresh()
ClusterAfter(its, types, minSig, q) ==
  { i \in 1..Len(its) : passesFilters(its[i], types, minSig, q) }

\* FillAfter without the setStyle call: a marker keeps the color it was made with
FillAfterNoRestyle(its, fills, mode, types, minSig, q) ==
  [ i \in 1..Len(its) |->
      IF fills[i] # "none" THEN fills[i]
      ELSE IF passesFilters(its[i], types, minSig, q) THEN markerStyle(its[i], mode)
      ELSE "none" ]

\* the fill colors after refresh(): an existing marker is restyled, a passing
\* item without a marker gets one from ensureMarker, styled for the mode
FillAfter(its, fills, mode, types, minSig, q) ==
  [ i \in 1..Len(its) |->
      IF fills[i] # "none" \/ passesFilters(its[i], types, minSig, q)
      THEN markerStyle(its[i], mode)
      ELSE "none" ]

\* refresh() run on the control state (mode, types, minSig, q)
Refresh(mode, types, minSig, q) ==
  /\ legend' = mode
  /\ markerFill' = FillAfter(items, markerFill, mode, types, minSig, q)
  /\ cluster' = ClusterAfter(items, types, minSig, q)
  /\ countText' = ShownAfter(items, Len(items), types, minSig, q)
  /\ viewFresh' = TRUE

\* ------------------------------------------------------------------------
\* Rendered page: inputs and event handlers
\* ------------------------------------------------------------------------

\* the most features of the embedded collection
MaxFeatures == 2

PointAt(lon, lat) == [type |-> "Point", coordinates |-> <<CoordNum(lon), CoordNum(lat)>>]

FeatureValues ==
  { [ geometry |-> PointAt(1900, 4750),
      properties |-> [SSID |-> Str(<<"E","d","u","r","o","a","m">>), Channel |-> Str(<<"6">>),
                      signal_dbm |-> Str(<<"-","6","5"," ","d","B","m">>)] ],
    [ geometry |-> PointAt(1910, 4760),
      properties |-> [Type |-> Str(<<"c","l","i","e","n","t">>), ssid |-> Str(<<"l","a","b">>),
                      signal |-> Num(NaN)] ],
    [ geometry |-> PointAt(1920, 4770),
      properties |-> [type |-> Str(<<"b","r","i","d","g","e">>), signal |-> Num(Fin(-12500))] ],
    [ geometry |-> [type |-> "LineString",
                    coordinates |-> <<CoordPos(1900, 4700), CoordPos(2000, 4800)>>],
      properties |-> [SSID |-> Str(<<"r","o","a","d">>)] ],
    [ geometry |-> NoGeometry,
      properties |-> [SSID |-> Str(<<"E","d","u">>), Channel |-> Str(<<"1">>)] ],
    [ geometry |-> [type |-> "Point", coordinates |-> <<CoordNum(1900)>>],
      properties |-> [signal |-> Num(Fin(-5000))] ] }

GeoJsonInputs == UNION { [1..n -> FeatureValues] : n \in 0..MaxFeatures }

\* the positions of the #minsig slider the user moves it to
SliderStops == {-120, -60}

\* the texts the user leaves in the #ssidq input
QueryTexts == {<<>>, <<" ">>, <<"E","D","U">>}

\* the page as loaded: the script has built items and run refresh() once
InitPage ==
  /\ geojson \in GeoJsonInputs
  /\ items = BuildItems(geojson)
  /\ modeVal = "type"
  /\ minsig = -120
  /\ typesChecked = DeviceTypes
  /\ ssidq = <<>>
  /\ ssidTimer = 0
  /\ viewFresh = TRUE
  /\ legend = "type"
  /\ markerFill = FillAfter(items, [i \in 1..Len(items) |-> "none"], "type", DeviceTypes, -120, <<>>)
  /\ cluster = ClusterAfter(items, DeviceTypes, -120, <<>>)
  /\ countText = ShownAfter(items, Len(items), DeviceTypes, -120, <<>>)
  /\ TypeIdle
  /\ SigIdle
  /\ CsvIdle
  /\ NxIdle

\* click on #reset
ResetClick ==
  /\ modeVal' = "type"
  /\ minsig' = -120
  /\ typesChecked' = DeviceTypes
  /\ ssidq' = <<>>
  /\ Refresh("type", DeviceTypes, -120, <<>>)
  /\ UNCHANGED <<geojson, items, ssidTimer, notPage>>

\* input on #minsig
MinsigInput ==
  \E v \in SliderStops :
    /\ v # minsig
    /\ minsig' = v
    /\ Refresh(modeVal, typesChecked, v, ssidq)
    /\ UNCHANGED <<geojson, items, modeVal, typesChecked, ssidq, ssidTimer, notPage>>

\* change on a .flt-type box
TypeChange ==
  \E t \in DeviceTypes :
    /\ typesChecked' = IF t \in typesChecked THEN typesChecked \ {t} ELSE typesChecked \cup {t}
    /\ Refresh(modeVal, typesChecked', minsig, ssidq)
    /\ UNCHANGED <<geojson, items, modeVal, minsig, ssidq, ssidTimer, notPage>>

\* change on a radio of name "mode"
ModeChange ==
  \E m \in {"type", "signal"} :
    /\ m # modeVal
    /\ modeVal' = m
    /\ Refresh(m, typesChecked, minsig, ssidq)
    /\ UNCHANGED <<geojson, items, minsig, typesChecked, ssidq, ssidTimer, notPage>>

\* the most timeouts the model lets be pending at once
MaxPending == 2

\* clearTimeout left out: the timeout set by the keystroke before stays pending
clearTimeoutNoop(n) == n

\* clearTimeout(window.__ssid_t) on n pending timeouts: the handle names the
\* timeout set last, which is cancelled if it has not fired yet
clearTimeout(n) == IF n > 0 THEN n - 1 ELSE 0

\* input on #ssidq: the pending timeout is cleared and a new one is set
SsidInput ==
  \E q \in QueryTexts :
    /\ q # ssidq
    /\ clearTimeout(ssidTimer) < MaxPending
    /\ ssidq' = q
    /\ ssidTimer' = clearTimeout(ssidTimer) + 1
    /\ viewFresh' = FALSE
    /\ UNCHANGED <<geojson, items, modeVal, minsig, typesChecked, legend, markerFill,
                   cluster, countText, notPage>>

\* the timeout set by the #ssidq handler fires
SsidTimeout ==
  /\ ssidTimer > 0
  /\ ssidTimer' = ssidTimer - 1
  /\ Refresh(modeVal, typesChecked, minsig, ssidq)
  /\ UNCHANGED <<geojson, items, modeVal, minsig, typesChecked, ssidq, notPage>>

NextPage == ResetClick \/ MinsigInput \/ TypeChange \/ ModeChange \/ SsidInput \/ SsidTimeout

SpecPage == InitPage /\ [][NextPage]_vars

\* the features that become a marker at their own position
MarkerFeatures ==
  { f \in FeatureValues : f.geometry.type = "Point" /\ LatLng(f) # <<>> }

\* the page as loaded from a collection of marker features
InitPageFair == InitPage /\ \A i \in 1..Len(geojson) : geojson[i] \in MarkerFeatures

\* The event loop runs a timeout that stays pending: WF_vars(SsidTimeout), with
\* ENABLED <<SsidTimeout>>_vars written out as ssidTimer > 0 (a firing always
\* lowers ssidTimer). It forces a firing only of a timeout that is left
\* pending, which is what setTimeout gives once the typing has stopped.
TimeoutFairness == []<>(ssidTimer = 0) \/ []<><<SsidTimeout>>_vars

SpecPageFair == InitPageFair /\ [][NextPage]_vars /\ TimeoutFairness

\* ------------------------------------------------------------------------
\* Claims about the rendered page
\* ------------------------------------------------------------------------

\* the filter predicate as the claim words it, on the current controls
FilterPredicate(it) ==
  /\ it.type \in typesChecked
  /\ (it.signal = None \/ JsGeq(it.signal, Fin(100 * minsig)))
  /\ \/ ssidQuery(ssidq) = <<>>
     \/ LET first == IF Truthy(Get(it.props, "SSID")) THEN Get(it.props, "SSID")
                     ELSE IF Truthy(Get(it.props, "ssid")) THEN Get(it.props, "ssid")
                     ELSE Get(it.props, "dot11.device.ssid")
        IN first.t = "str" /\ Contains(Lower(Strip(ssidq)), Lower(first.s))

FilterSet == { i \in 1..Len(items) : FilterPredicate(items[i]) }

\* C3: after every refresh the markers in the cluster layer are exactly the
\* placed records that satisfy the filter predicate on the current controls
\* (type checked, signal absent or >= threshold, query empty or contained in
\* the SSID), and the count pill shows the size of that set.
C3_ClusterIsFilterSet ==
  viewFresh => (cluster = FilterSet /\ countText = Cardinality(FilterSet))

\* C3 on pages none of whose records has a NaN signal
ClusterIsFilterSetNoNaN ==
  (viewFresh /\ \A i \in 1..Len(items) : items[i].signal.k # "nan")
    => (cluster = FilterSet /\ countText = Cardinality(FilterSet))

\* the controls are at their defaults
ControlsDefault ==
  modeVal = "type" /\ minsig = -120 /\ typesChecked = DeviceTypes /\ ssidq = <<>>

\* C4: the reset action puts every control at its default and recomputes, and
\* in that state nothing is filtered: every placed record is in the visible
\* set again, whatever its signal value.
C4_ResetShowsAll ==
  [][ResetClick => (ControlsDefault' /\ viewFresh'
                    /\ cluster' = 1..Len(items) /\ countText' = Len(items))]_vars

\* C4 for the records whose signal is not below the slider's minimum
ResetShowsAllInRange ==
  [][ResetClick => (ControlsDefault' /\ viewFresh'
                    /\ \A i \in 1..Len(items) :
                          (items[i].signal = None \/ ~JsLess(items[i].signal, Fin(-12000)))
                            => i \in cluster')]_vars

\* the geometry is a Point whose coordinates start with a pair of numbers
IsPointPair(g) ==
  /\ g.type = "Point"
  /\ Len(g.coordinates) >= 2
  /\ g.coordinates[1].a = "num"
  /\ g.coordinates[2].a = "num"

\* C10: a feature is placed only if its geometry is a Point with a [lon, lat]
\* pair; features with missing geometry, another geometry type or malformed
\* coordinates are not in the item list and are never shown or counted.
C10_OnlyPointsPlaced ==
  /\ \A i \in 1..Len(items) : IsPointPair(items[i].raw.geometry)
  /\ \A i \in cluster : IsPointPair(items[i].raw.geometry)
  /\ countText <= Cardinality({ j \in 1..Len(geojson) : IsPointPair(geojson[j].geometry) })

\* C10 with the test the code makes: two or more coordinates entries
OnlyTwoEntriesPlaced ==
  /\ \A i \in 1..Len(items) :
        items[i].raw.geometry.type # "null" /\ Len(items[i].raw.geometry.coordinates) >= 2
  /\ Len(items) = Cardinality({ j \in 1..Len(geojson) :
                                  Len(geojson[j].geometry.coordinates) >= 2 })

\* ------------------------------------------------------------------------
\* Claims about the coloring mode
\* ------------------------------------------------------------------------

CategoryColor(t) ==
  CASE t = "bridge" -> "#1e88e5"
    [] t = "ap" -> "#43a047"
    [] t = "client" -> "#fb8c00"
    [] t = "unknown" -> "#9e9e9e"

\* the color of a record in a mode as the claim words it: the signal buckets
\* are >= -60, [-75, -60), < -75 and absent; no bucket holds NaN
BucketColor(it, mode) ==
  IF mode = "type" THEN CategoryColor(it.type)
  ELSE IF it.signal = None THEN "#9e9e9e"
  ELSE IF JsGeq(it.signal, Fin(-6000)) THEN "#2e7d32"
  ELSE IF JsGeq(it.signal, Fin(-7500)) /\ JsLess(it.signal, Fin(-6000)) THEN "#f9a825"
  ELSE IF JsLess(it.signal, Fin(-7500)) THEN "#c62828"
  ELSE "undefined"

\* the same with every signal outside the first three buckets, NaN too, weak
FallthroughColor(it, mode) ==
  IF BucketColor(it, mode) = "undefined" THEN "#c62828" ELSE BucketColor(it, mode)

\* a mode switch leaves the filter controls and the passing set as they were:
\* the items and the three controls, of which the passing set is a function,
\* and the set passesFilters lets through
ModeSwitchKeepsFilter ==
  /\ minsig' = minsig
  /\ typesChecked' = typesChecked
  /\ ssidq' = ssidq
  /\ items' = items
  /\ ClusterAfter(items', typesChecked', minsig', ssidq')
       = ClusterAfter(items, typesChecked, minsig, ssidq)

\* C11: a mode switch changes only fill colors and the legend: the filter
\* controls, the passing set and the shown count are the same before and
\* after it, and after the refresh every visible marker has the color of the
\* current mode (per category, or by signal bucket).
C11_ModeSwitchOnlyRecolors ==
  [][ModeChange =>
       /\ ModeSwitchKeepsFilter
       /\ cluster' = cluster
       /\ countText' = countText
       /\ legend' = modeVal'
       /\ \A i \in cluster' : markerFill'[i] = BucketColor(items[i], modeVal')]_vars

\* C11 as amended: the shown set and count are kept when the view was up to
\* date before the switch, and a signal in no bucket is drawn weak
C11_ModeSwitchAmended ==
  [][ModeChange =>
       /\ ModeSwitchKeepsFilter
       /\ viewFresh => (cluster' = cluster /\ countText' = countText)
       /\ ~viewFresh => /\ cluster' = ClusterAfter(items, typesChecked, minsig, ssidq)
                        /\ countText' = Cardinality(cluster')
       /\ legend' = modeVal'
       /\ \A i \in cluster' : markerFill'[i] = FallthroughColor(items[i], modeVal')]_vars

\* the mode has been switched to signal and a marker made in type mode at load
\* is visible in its signal color
C11_Witness ==
  /\ modeVal = "signal"
  /\ legend = "signal"
  /\ viewFresh
  /\ \E i \in cluster :
        /\ items[i].signal = Fin(-6500)
        /\ CategoryColor(items[i].type) = "#43a047"
        /\ markerFill[i] = "#f9a825"


\* ------------------------------------------------------------------------
\* Claims about the debounced query input
\* ------------------------------------------------------------------------

\* the view is the one refresh() computes from the controls as they are now
ViewCurrent ==
  /\ cluster = ClusterAfter(items, typesChecked, minsig, ssidq)
  /\ countText = Cardinality(cluster)
  /\ legend = modeVal

\* ViewCurrent of the state a step leads to
ViewCurrentNext ==
  /\ cluster' = ClusterAfter(items', typesChecked', minsig', ssidq')
  /\ countText' = Cardinality(cluster')
  /\ legend' = modeVal'

\* the handlers that call refresh() themselves
SynchronousEvent == ResetClick \/ MinsigInput \/ TypeChange \/ ModeChange

\* at most one timeout is pending; a view left by refresh() is the one of the
\* current controls; and an edit of the query that the view does not show yet
\* has its timeout pending
DebounceInvariant ==
  /\ ssidTimer \in {0, 1}
  /\ viewFresh => ViewCurrent
  /\ ssidTimer = 0 => viewFresh
  /\ ~ViewCurrent => ssidTimer = 1

\* what each kind of event does to the view and to the pending timeout
DebounceStep ==
  /\ SynchronousEvent => (ViewCurrentNext /\ viewFresh' /\ ssidTimer' = ssidTimer)
  /\ SsidInput => /\ ssidTimer' = 1
                  /\ cluster' = cluster /\ countText' = countText
                  /\ markerFill' = markerFill /\ legend' = legend
  /\ SsidTimeout => (ViewCurrentNext /\ viewFresh' /\ ssidTimer' = 0 /\ ssidq' = ssidq)

\* once the typing has stopped the timeout fires, and from then on no timeout
\* is pending and the view stays one left by refresh()
TypingStopsThenSettles ==
  (<>[][~SsidInput]_vars) => <>[](ssidTimer = 0 /\ viewFresh)

\* C12: the type, slider, mode and reset handlers recompute the view within the
\* event; a query input recomputes nothing and leaves exactly one timeout
\* pending, replacing the one before; once the typing stops the timeout fires,
\* and afterwards the view is the one of the latest query text and of the
\* current state of the other controls. The length of the delay is not modelled.
C12_DebouncedQuery ==
  /\ []DebounceInvariant
  /\ [][DebounceStep]_vars
  /\ TypingStopsThenSettles

\* a typed query has been applied by its timeout and hides a marker that the
\* empty query shows
C12_Witness ==
  /\ ssidq = <<"E","D","U">>
  /\ ssidTimer = 0
  /\ ViewCurrent
  /\ cluster # {}
  /\ cluster # ClusterAfter(items, typesChecked, minsig, <<>>)

====
